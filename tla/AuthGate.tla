------------------------------- MODULE AuthGate -------------------------------
(***************************************************************************)
(* avatar/authgate/authgate.py: follows nginx's error log for failed       *)
(* logins, counts them per client address, and keeps the list of bans that *)
(* nginx asks about.                                                       *)
(*                                                                         *)
(* A log line is its number in the order nginx writes them; "who" gives    *)
(* its client.  A line is two units long, so that the follower can see a   *)
(* half-written one, and sizes and positions are in units.  nginx, the log *)
(* rotation and the clock are the environment.  The thread that follows    *)
(* the log and the HTTP threads share fails and bans under one lock, which *)
(* is held while the bans are saved.                                       *)
(***************************************************************************)
EXTENDS Integers, Sequences, FiniteSets, Selection

CONSTANTS
    Clients,        \* client addresses
    Local,          \* those private() says are local
    Fails,          \* FAILS
    Window,         \* WINDOW
    Ban,            \* BAN
    RepeatBan,      \* REPEAT_BAN
    Day,            \* 86400
    NoBan,          \* an address without an entry in bans
    Unknown,        \* None: the follower has no position
    MaxLines,       \* bound: lines nginx writes
    MaxDisturb,     \* bound: rotations, truncations and restarts
    Horizon         \* bound: the clock stops here

Entry == [until : Nat, count : Nat, last : Nat]

\* A window or a ban of no seconds would be none; bans holds entries, or nothing.
ASSUME BanAssumption ==
    /\ Local \subseteq Clients
    /\ {Fails, Window, Ban, RepeatBan} \subseteq Nat \ {0}
    /\ {Day, MaxLines, MaxDisturb, Horizon} \subseteq Nat
    /\ Unknown \notin Int /\ NoBan \notin Entry

VARIABLES
    now,        \* time.time()
    who,        \* the client of each line written so far
    file,       \* the lines in the log file now
    half,       \* nginx is half-way through the next line
    exists,     \* the log file is there (it is not, for a moment, in a rotation)
    pos,        \* follow(): pos, Unknown for None
    size,       \* follow(): size
    follower,   \* where follow() is
    stale,      \* the file was replaced or emptied since pos was set
    pending,    \* lines read and not yet passed to failed()
    fails,      \* fails: client -> the times of recent failures
    bans,       \* bans: client -> entry
    saving,     \* the lock is held by a thread about to save()
    saved,      \* STATE on disk
    counted,    \* history: line -> the times failed() was given it
    since,      \* history: client -> lines counted since its count last restarted
    saveFailed, \* history: the last save() failed
    disturbed   \* history: rotations, truncations and restarts so far

nginxVars == <<who, file, half, exists>>
followVars == <<pos, size, follower, stale, pending>>
banVars == <<fails, bans, saving, saved>>
historyVars == <<counted, since, saveFailed, disturbed>>
vars == <<now, nginxVars, followVars, banVars, historyVars>>

FileSize == 2 * Len(file) + (IF half THEN 1 ELSE 0)

Init ==
    /\ now = 0
    /\ who = <<>> /\ file = <<>> /\ half = FALSE /\ exists = TRUE
    /\ pos = Unknown /\ size = 0 /\ follower = "stat" /\ stale = FALSE /\ pending = <<>>
    /\ fails = [c \in Clients |-> <<>>]
    /\ bans = [c \in Clients |-> NoBan]
    /\ saving = FALSE
    /\ saved = bans
    /\ counted = [i \in 1..MaxLines |-> <<>>]
    /\ since = [c \in Clients |-> {}]
    /\ saveFailed = FALSE
    /\ disturbed = 0

-----------------------------------------------------------------------------
(* The environment: the clock, nginx, and what rotates its log *)

Tick ==
    /\ now < Horizon
    /\ now' = now + 1
    /\ UNCHANGED <<nginxVars, followVars, banVars, historyVars>>

BeginLine ==
    /\ exists /\ ~half /\ Len(who) < MaxLines
    /\ half' = TRUE
    /\ UNCHANGED <<now, who, file, exists, followVars, banVars, historyVars>>

EndLine(c) ==
    /\ half
    /\ half' = FALSE
    /\ who' = Append(who, c)
    /\ file' = Append(file, Len(who) + 1)
    /\ UNCHANGED <<now, exists, followVars, banVars, historyVars>>

\* Emptied in place, or moved away and made again.
Truncate ==
    /\ exists /\ ~half /\ disturbed < MaxDisturb
    /\ file' = <<>>
    /\ stale' = TRUE
    /\ disturbed' = disturbed + 1
    /\ UNCHANGED <<now, who, half, exists, pos, size, follower, pending,
                   banVars, counted, since, saveFailed>>

MoveAway ==
    /\ exists /\ ~half /\ disturbed < MaxDisturb
    /\ exists' = FALSE
    /\ file' = <<>>
    /\ stale' = TRUE
    /\ disturbed' = disturbed + 1
    /\ UNCHANGED <<now, who, half, pos, size, follower, pending,
                   banVars, counted, since, saveFailed>>

MakeAgain ==
    /\ ~exists
    /\ exists' = TRUE
    /\ UNCHANGED <<now, who, file, half, followVars, banVars, historyVars>>

-----------------------------------------------------------------------------
(* follow() *)

NoFile ==
    /\ ~exists
    /\ follower \in {"stat", "read"}
    /\ pos' = Unknown
    /\ follower' = "stat"
    /\ UNCHANGED <<now, nginxVars, size, stale, pending, banVars, historyVars>>

\* getsize.  The first size seen is where it starts; a smaller one than the
\* position means a new file, read from its start.
Stat ==
    /\ follower = "stat"
    /\ exists
    /\ size' = FileSize
    /\ pos' = IF pos = Unknown THEN FileSize ELSE IF FileSize < pos THEN 0 ELSE pos
    /\ stale' = (stale /\ pos' = pos)
    /\ follower' = IF size' > pos' THEN "read" ELSE "stat"
    /\ UNCHANGED <<now, nginxVars, pending, banVars, historyVars>>

\* The lines that end in the chunk are those from the first to the last; a
\* half-written one is left for later.
SmallerOf(a, b) == IF a < b THEN a ELSE b
FirstLine == pos \div 2 + 1
LastLine == SmallerOf(size, FileSize) \div 2

\* Two plausible bugs: the position moves past a half-written line, and not at
\* all when the chunk ends in one.
PositionAfterChunk == SmallerOf(size, FileSize)
PositionStuck == IF FileSize % 2 = 1 \/ LastLine < FirstLine THEN pos ELSE 2 * LastLine
PositionAfter == IF LastLine < FirstLine THEN pos ELSE 2 * LastLine

\* open, seek, read(size - pos).  The file may have changed since getsize.  A
\* first line whose start is before pos may or may not be recognised; so may
\* one at pos when the file is not the one pos was measured in.
Read ==
    /\ follower = "read"
    /\ exists
    /\ pos' = PositionAfter
    /\ stale' = (stale /\ LastLine < FirstLine)
    /\ \/ pending' = SubSeq(file, FirstLine, LastLine)
       \/ (stale \/ pos % 2 = 1) /\ pending' = SubSeq(file, FirstLine + 1, LastLine)
    /\ follower' = "count"
    /\ UNCHANGED <<now, nginxVars, size, banVars, historyVars>>

\* The chunk is used up: sleep(1), and look again.
Again ==
    /\ follower = "count"
    /\ pending = <<>>
    /\ follower' = "stat"
    /\ UNCHANGED <<now, nginxVars, pos, size, stale, pending, banVars, historyVars>>

-----------------------------------------------------------------------------
(* failed(), save() and the HTTP handler *)

\* Two plausible bugs: failures older than the window still count, and one
\* failure too many is allowed.
AllSoFar(c) == Append(fails[c], now)
Recent(c) == Append(Selected(fails[c], {t \in Nat : now - t < Window}), now)

OneMoreAllowed(c) == Len(Recent(c)) <= Fails
NotYetBanned(c) == Len(Recent(c)) < Fails

BannedEntry(c) ==
    LET old == bans[c]
        again == old # NoBan /\ now - old.last < Day
    IN [until |-> now + (IF again THEN RepeatBan ELSE Ban),
        count |-> (IF old = NoBan THEN 0 ELSE old.count) + 1,
        last |-> now]

TakeNext ==
    /\ follower = "count"
    /\ pending # <<>>
    /\ pending' = Tail(pending)
    /\ UNCHANGED <<pos, size, follower, stale>>

\* private(): the LAN is not counted.
FailedLocal ==
    /\ TakeNext
    /\ who[Head(pending)] \in Local
    /\ counted' = [counted EXCEPT ![Head(pending)] = Append(@, now)]
    /\ UNCHANGED <<now, nginxVars, banVars, since, saveFailed, disturbed>>

Failed(c) ==
    /\ TakeNext
    /\ ~saving
    /\ c = who[Head(pending)] /\ c \notin Local
    /\ IF NotYetBanned(c)
       THEN /\ fails' = [fails EXCEPT ![c] = Recent(c)]
            /\ since' = [since EXCEPT ![c] = @ \cup {Head(pending)}]
            /\ UNCHANGED <<bans, saving>>
       ELSE /\ bans' = [bans EXCEPT ![c] = BannedEntry(c)]
            /\ fails' = [fails EXCEPT ![c] = <<>>]
            /\ since' = [since EXCEPT ![c] = {}]
            /\ saving' = TRUE
    /\ counted' = [counted EXCEPT ![Head(pending)] = Append(@, now)]
    /\ UNCHANGED <<now, nginxVars, saved, saveFailed, disturbed>>

Unban(c) ==
    /\ ~saving
    /\ bans' = [bans EXCEPT ![c] = NoBan]
    /\ fails' = [fails EXCEPT ![c] = <<>>]
    /\ since' = [since EXCEPT ![c] = {}]
    /\ saving' = TRUE
    /\ UNCHANGED <<now, nginxVars, followVars, saved, counted, saveFailed, disturbed>>

\* A plausible bug: the temporary file never replaces the old one.
SaveLeavesTmp ==
    /\ saving
    /\ saving' = FALSE
    /\ UNCHANGED <<now, nginxVars, followVars, fails, bans, saved, historyVars>>

\* save(): the temporary file replaces the old one, or an OSError is printed.
Save ==
    /\ saving
    /\ \/ saved' = bans /\ saveFailed' = FALSE
       \/ saveFailed' = TRUE /\ UNCHANGED saved
    /\ saving' = FALSE
    /\ UNCHANGED <<now, nginxVars, followVars, fails, bans, counted, since, disturbed>>

\* The process dies at any point and comes back: load(), and the end of the log.
Restart ==
    /\ disturbed < MaxDisturb
    /\ disturbed' = disturbed + 1
    /\ bans' = saved
    /\ fails' = [c \in Clients |-> <<>>]
    /\ since' = [c \in Clients |-> {}]
    /\ saving' = FALSE
    /\ saveFailed' = FALSE
    /\ pos' = Unknown /\ follower' = "stat" /\ stale' = FALSE /\ pending' = <<>>
    /\ UNCHANGED <<now, nginxVars, size, saved, counted>>

\* banned(): what /check answers, without the lock.
Banned(c) == bans[c] # NoBan /\ bans[c].until > now

Follow == NoFile \/ Stat \/ Read \/ Again \/ FailedLocal \/ \E c \in Clients : Failed(c)
Nginx == BeginLine \/ (\E c \in Clients : EndLine(c)) \/ Truncate \/ MoveAway \/ MakeAgain

Next == Tick \/ Nginx \/ Follow \/ Save \/ Restart \/ \E c \in Clients : Unban(c)

\* The follower thread runs for ever, whoever holds the lock saves, and the
\* follower gets the lock though unbans may take it again and again.
Spec ==
    /\ Init /\ [][Next]_vars
    /\ WF_vars(Follow) /\ WF_vars(Save)
    /\ SF_vars(\E c \in Clients : Failed(c))

-----------------------------------------------------------------------------
(* Properties *)

TypeOK ==
    /\ now \in 0..Horizon
    /\ who \in Seq(Clients) /\ Len(who) <= MaxLines
    /\ file \in Seq(1..Len(who))
    /\ half \in BOOLEAN /\ exists \in BOOLEAN
    /\ pos \in (0..(2 * MaxLines + 1)) \cup {Unknown}
    /\ size \in 0..(2 * MaxLines + 1)
    /\ follower \in {"stat", "read", "count"}
    /\ stale \in BOOLEAN
    /\ pending \in Seq(1..Len(who))
    /\ \A c \in Clients : fails[c] \in Seq(Nat) /\ Len(fails[c]) < Fails
    /\ \A c \in Clients : bans[c] \in Entry \cup {NoBan} /\ saved[c] \in Entry \cup {NoBan}
    /\ saving \in BOOLEAN /\ saveFailed \in BOOLEAN
    /\ disturbed \in 0..MaxDisturb

\* follow(): no line is given to failed() twice, whatever is appended, rotated
\* or truncated between getsize and read, and over restarts.
CountedOnce == \A i \in 1..MaxLines : Len(counted[i]) <= 1

\* failed(): an address is banned by exactly the failure that completes Fails
\* of them within the window since its count last began (start, ban, unban),
\* and a local address by none; from that step on /check refuses it.
BanExactly ==
    [][\A i \in 1..Len(who) : counted'[i] # counted[i] =>
          LET c == who[i]
              near == {j \in since[c] \cup {i} : now - counted'[j][1] < Window}
          IN /\ bans'[c] # bans[c] <=> c \notin Local /\ Cardinality(near) >= Fails
             /\ bans'[c] # bans[c] => Banned(c)']_vars

\* save(): while nobody holds the lock, the file has the bans in memory, unless
\* the last save failed, so a restart then loses no ban and revives none.
DiskMatches == ~saving /\ ~saveFailed => saved = bans

\* follow(): a line written past the position is counted, as long as the log is
\* not rotated or truncated and the process not restarted.
Ahead(i) == pos # Unknown /\ \E n \in 1..Len(file) : file[n] = i /\ 2 * n - 2 >= pos
LinesCounted ==
    \A i \in 1..MaxLines :
        (Ahead(i) /\ disturbed = 0) ~> (counted[i] # <<>> \/ disturbed > 0)
=============================================================================
